---- MODULE Spec2Model ----
(***************************************************************************)
(* Model of stock_picking_group_by_partner_by_carrier/models/stock_move.py *)
(* (class StockMove): the write interception that keeps a move's           *)
(* procurement group, the search domain used to find a picking for a move, *)
(* the post-processing of an assignment batch and the merge key fields.    *)
(*                                                                         *)
(* Record ids are naturals; 0 stands for an empty record (Python False).   *)
(***************************************************************************)
EXTENDS Naturals, Integers, Sequences, FiniteSets, TLC

VARIABLES
    cfg,         \* static data: the orders' groups, partners' flags
    group_id,    \* stock.move.group_id,   per move (0: empty)
    picking_id,  \* stock.move.picking_id, per move (0: empty)
    pickings,    \* the stock.picking records created so far, by id
    via,         \* how each move got its picking: "none", "found", "new", "backorder"
    env,         \* per transaction: the stack of contexts of the running calls
    last,        \* the last operation performed and what it saw
    post,        \* position of _assign_picking_post_process in its loop
    dq,          \* SpecDomain: the inputs of the domain computation
    dres,        \* SpecDomain: its result
    mq,          \* SpecMerge: base distinct fields and two moves
    mres         \* SpecMerge: the distinct fields computed

vars == <<cfg, group_id, picking_id, pickings, via, env, last, post, dq, dres, mq, mres>>

-----------------------------------------------------------------------------
(* Bounds of the model *)

NMoves == 4
MaxBase == 2
NWriteMoves == 3
MaxDepth == 2
MaxPickings == 4

Moves == 1..NMoves
Orders == {1, 2, 3}
Partners == {1, 2}
Carriers == {1}
Policies == {"direct", "one"}
MoveTypes == {"direct", "one"}
Codes == {"outgoing", "internal"}

NoOverwrite == "picking_no_overwrite_partner_origin"
NoCopy == "picking_no_copy_if_can_group"

-----------------------------------------------------------------------------
(* Search domains: ordered lists of clauses (field, operator, value).       *)
(* A value is an id or a string; both are kept in one record so that any    *)
(* two clauses can be compared.                                             *)

IdVal(n) == [id |-> n, str |-> ""]
StrVal(s) == [id |-> 0, str |-> s]
Clause(f, o, v) == [field |-> f, op |-> o, value |-> v]

\* The value of a picking's field, as a clause value.
FieldValue(p, f) ==
    CASE f = "id" -> IdVal(p.id)
      [] f = "group_id" -> IdVal(p.group_id)
      [] f = "partner_id" -> IdVal(p.partner_id)
      [] f = "carrier_id" -> IdVal(p.carrier_id)
      [] f = "picking_type_id" -> IdVal(p.picking_type_id)
      [] f = "move_type" -> StrVal(p.move_type)
      [] OTHER -> IdVal(0)

\* A picking satisfies a clause / every clause of a domain.
MatchesClause(p, c) ==
    IF c.op = "=" THEN FieldValue(p, c.field) = c.value
    ELSE FieldValue(p, c.field) # c.value

Matches(p, domain) == \A i \in 1..Len(domain) : MatchesClause(p, domain[i])

-----------------------------------------------------------------------------
(* The picking locator. A move is seen through the values the code reads:   *)
(*   group_pickings  self.picking_type_id.group_pickings                    *)
(*   code            self.picking_type_id.code                              *)
(*   disable         self.partner_id.disable_picking_grouping               *)
(*   policy          self.group_id.sale_id.picking_policy                   *)
(*   gpartner        self.group_id.partner_id.id                            *)
(*   gmove_type      self.group_id.move_type                                *)
(*   gcarrier        self.group_id.carrier_id.id                            *)
(*   picking         self.picking_id.id                                     *)

\* Faulty variant: the move type clause is lost.
domain_search_picking_no_move_type(mv) == <<>>

domain_search_picking_handle_move_type(mv) ==
    << Clause("move_type", "=", StrVal(mv.gmove_type)) >>

\* Faulty variant: the carrier of the group is required whatever the picking type.
carrier_clause_always_group(mv) ==
    << Clause("carrier_id", "=", IdVal(mv.gcarrier)) >>

carrier_clause(mv) ==
    IF mv.code = "outgoing"
    THEN << Clause("carrier_id", "=", IdVal(mv.gcarrier)) >>
    ELSE << Clause("carrier_id", "=", IdVal(0)) >>

\* Faulty variant: the backorder context is ignored.
backorder_clause_never(mv, ctx) == <<>>

backorder_clause(mv, ctx) ==
    IF NoCopy \in ctx
    THEN << Clause("id", "!=", IdVal(mv.picking)) >>
    ELSE <<>>

assign_picking_group_domain(mv, ctx) ==
    << Clause("partner_id", "=", IdVal(mv.gpartner)) >>
    \o domain_search_picking_handle_move_type(mv)
    \o carrier_clause(mv)
    \o backorder_clause(mv, ctx)

\* Faulty variant: the partner's flag is not looked at.
grouping_disabled_ignoring_partner(mv) ==
    \/ ~mv.group_pickings
    \/ mv.policy = "one"

\* Faulty variant: the policy of the order is not looked at.
grouping_disabled_ignoring_policy(mv) ==
    \/ ~mv.group_pickings
    \/ mv.disable

grouping_disabled(mv) ==
    \/ ~mv.group_pickings
    \/ mv.disable
    \/ mv.policy = "one"

IsGroupClause(c) == c.field = "group_id"
NotGroupClause(c) == c.field # "group_id"

\* Faulty variant: the group clause is kept in the expanded domain.
remove_group_keep(domain) == domain

remove_group(domain) == SelectSeq(domain, NotGroupClause)

search_picking_for_assignation_domain(base, mv, ctx) ==
    IF grouping_disabled(mv)
    THEN base
    ELSE remove_group(base) \o assign_picking_group_domain(mv, ctx)

-----------------------------------------------------------------------------
(* SpecDomain: the domain computation on inputs drawn from bounded sets.    *)

BaseClauses ==
    { Clause("group_id", "=", IdVal(1)),
      Clause("picking_type_id", "=", IdVal(1)),
      Clause("partner_id", "=", IdVal(1)) }

BaseDomains == UNION { [1..n -> BaseClauses] : n \in 0..MaxBase }

MoveViews ==
    [ group_pickings : BOOLEAN, code : Codes, disable : BOOLEAN,
      policy : Policies \cup {"False"}, gpartner : Partners,
      gmove_type : MoveTypes, gcarrier : Carriers \cup {0},
      picking : {0, 1} ]

DomainQueries == [ base : BaseDomains, mv : MoveViews, ctx : SUBSET {NoCopy} ]

NoQuery == [ base |-> <<>>, mv |-> CHOOSE v \in MoveViews : TRUE, ctx |-> {} ]
NoResult == [ done |-> FALSE, domain |-> <<>> ]
NoMerge == [ base |-> <<>>, a |-> 0, b |-> 0 ]
NoMergeResult == [ done |-> FALSE, fields |-> <<>> ]

Top(stack) == stack[Len(stack)]

\* Values of the variables a specification does not use.
NoCfg == [ order |-> <<>>, group_pickings |-> FALSE, code |-> "outgoing", disabled |-> {} ]
NoPost ==
    [ active |-> FALSE, ran |-> FALSE, srt |-> <<>>, pos |-> 0, key |-> 0,
      calls |-> <<>>, groups |-> <<>>, refreshed |-> {} ]
NoLast == [ op |-> "none" ]

SearchDomain ==
    /\ ~dres.done
    /\ dres' = [ done |-> TRUE,
                 domain |-> search_picking_for_assignation_domain(dq.base, dq.mv, dq.ctx) ]
    /\ UNCHANGED <<cfg, group_id, picking_id, pickings, via, env, last, post, dq, mq, mres>>

InitDomain ==
    /\ dq \in DomainQueries
    /\ dres = NoResult
    /\ cfg = NoCfg /\ group_id = <<>> /\ picking_id = <<>> /\ pickings = <<>>
    /\ via = <<>> /\ env = <<>> /\ last = NoLast /\ post = NoPost
    /\ mq = NoMerge /\ mres = NoMergeResult

NextDomain == SearchDomain

SpecDomain == InitDomain /\ [][NextDomain]_vars

-----------------------------------------------------------------------------
(* The fields that keep two moves from being merged into one.               *)

\* Faulty variant: the base list is returned as it is.
prepare_merge_moves_distinct_fields_base_only(base) == base

prepare_merge_moves_distinct_fields(base) == base \o <<"original_group_id">>

\* The consumer of the list: two moves are merged only when they agree on
\* every distinct field.
MergeEquivalent(fields, a, b) == \A i \in 1..Len(fields) : a[fields[i]] = b[fields[i]]

MergeFields == {"product_id", "location_id"}
BaseFieldLists ==
    { f \in UNION { [1..n -> MergeFields] : n \in 0..MaxBase } :
        \A i, j \in 1..Len(f) : i # j => f[i] # f[j] }
MergeMoves == [ product_id : 1..2, location_id : 1..2, original_group_id : 0..2 ]

PrepareMerge ==
    /\ ~mres.done
    /\ mres' = [ done |-> TRUE, fields |-> prepare_merge_moves_distinct_fields(mq.base) ]
    /\ UNCHANGED <<cfg, group_id, picking_id, pickings, via, env, last, post, dq, dres, mq>>

InitMerge ==
    /\ mq \in [ base : BaseFieldLists, a : MergeMoves, b : MergeMoves ]
    /\ mres = NoMergeResult
    /\ cfg = NoCfg /\ group_id = <<>> /\ picking_id = <<>> /\ pickings = <<>>
    /\ via = <<>> /\ env = <<>> /\ last = NoLast /\ post = NoPost
    /\ dq = NoQuery /\ dres = NoResult

NextMerge == PrepareMerge

SpecMerge == InitMerge /\ [][NextMerge]_vars

-----------------------------------------------------------------------------
(* The data of the assignment: sales orders, their procurement groups and   *)
(* their moves. Order o has procurement group o; its group carries the      *)
(* order's shipping partner and carrier, and the order's picking policy as  *)
(* move type. All moves belong to one picking type.                         *)

OrderOf(m) == ((m - 1) % Cardinality(Orders)) + 1

OrderConfigs == [ partner : Partners, carrier : Carriers \cup {0}, policy : Policies ]

\* Order 1 ships to partner 1 with carrier 1; the other orders are free.
Configs ==
    { c \in [ order : [Orders -> OrderConfigs], group_pickings : BOOLEAN, code : Codes,
              disabled : {{}, {1}} ] :
        c.order[1].partner = 1 /\ c.order[1].carrier = 1 }

GroupPartner(g) == IF g = 0 THEN 0 ELSE cfg.order[g].partner
GroupCarrier(g) == IF g = 0 THEN 0 ELSE cfg.order[g].carrier
GroupPolicy(g) == IF g = 0 THEN "False" ELSE cfg.order[g].policy
GroupMoveType(g) == IF g = 0 THEN "False" ELSE cfg.order[g].policy

\* What the locator reads of move m.
MoveView(m) ==
    [ group_pickings |-> cfg.group_pickings,
      code |-> cfg.code,
      disable |-> cfg.order[OrderOf(m)].partner \in cfg.disabled,
      policy |-> GroupPolicy(group_id[m]),
      gpartner |-> GroupPartner(group_id[m]),
      gmove_type |-> GroupMoveType(group_id[m]),
      gcarrier |-> GroupCarrier(group_id[m]),
      picking |-> picking_id[m] ]

\* The domain of the base module: same group, same picking type.
BaseDomain(m) ==
    << Clause("group_id", "=", IdVal(group_id[m])),
       Clause("picking_type_id", "=", IdVal(1)) >>

\* The picking created when the search finds none.
NewPicking(m, id) ==
    [ id |-> id,
      group_id |-> group_id[m],
      partner_id |-> cfg.order[OrderOf(m)].partner,
      carrier_id |-> cfg.order[OrderOf(m)].carrier,
      move_type |-> GroupMoveType(group_id[m]),
      picking_type_id |-> 1 ]

key_assign_picking(m) ==
    << cfg.order[OrderOf(m)].partner, cfg.order[OrderOf(m)].policy, group_id[m], 1 >>

-----------------------------------------------------------------------------
(* write: vals holds the fields written.                                    *)

Vals(hp, p, hg, g) == [ has_picking |-> hp, picking |-> p, has_group |-> hg, group |-> g ]

GroupsOf(rs) == { group_id[m] : m \in rs } \ {0}

\* Faulty variant: the group is never put into vals.
write_vals_unforced(rs, vals, ctx) == vals

\* The vals handed to the underlying write.
write_vals(rs, vals, ctx) ==
    IF /\ NoOverwrite \in ctx
       /\ vals.has_picking
       /\ ~vals.has_group
       /\ Cardinality(GroupsOf(rs)) = 1
    THEN [ vals EXCEPT !.has_group = TRUE, !.group = CHOOSE g \in GroupsOf(rs) : TRUE ]
    ELSE vals

\* The underlying write: a group given in vals is stored; without one, the
\* moves put on a picking take the picking's group.
BaseWriteGroup(rs, vals, pks) ==
    [ m \in DOMAIN group_id |->
        IF m \notin rs THEN group_id[m]
        ELSE IF vals.has_group THEN vals.group
        ELSE IF vals.has_picking /\ vals.picking \in DOMAIN pks
                /\ pks[vals.picking].group_id # 0
             THEN pks[vals.picking].group_id
        ELSE group_id[m] ]

BaseWritePicking(rs, vals) ==
    [ m \in DOMAIN picking_id |->
        IF m \in rs /\ vals.has_picking THEN vals.picking ELSE picking_id[m] ]

\* Faulty variant: the context of the caller is changed in place.
assign_picking_context_in_place(stack) ==
    [ i \in 1..Len(stack) |-> stack[i] \cup {NoOverwrite} ] \o << Top(stack) \cup {NoOverwrite} >>

\* _assign_picking runs the base procedure in a new context that adds the flag.
assign_picking_context(stack) == Append(stack, Top(stack) \cup {NoOverwrite})

-----------------------------------------------------------------------------
(* _assign_picking_post_process: sorted() is computed at once, groupby      *)
(* reads the key of an item when it reaches the item.                       *)

\* sorted(self, key=lambda m: m.picking_id.id): a stable sort.
Rank(seq, i, pid) ==
    1 + Cardinality({ j \in 1..Len(seq) :
            \/ pid[seq[j]] < pid[seq[i]]
            \/ pid[seq[j]] = pid[seq[i]] /\ j < i })

sorted_by_picking(seq, pid) ==
    [ r \in 1..Len(seq) |-> seq[CHOOSE i \in 1..Len(seq) : Rank(seq, i, pid) = r] ]

\* The loop is entered: the first item and its key are read.
post_start(seq, pid) ==
    LET srt == sorted_by_picking(seq, pid) IN
    [ NoPost EXCEPT !.active = TRUE, !.srt = srt, !.pos = 1, !.key = pid[srt[1]] ]

MovesOn(p) == { m \in DOMAIN picking_id : picking_id[m] = p }

\* Pickings that _merge_procurement_groups may coalesce into picking k: same
\* picking type, partner, carrier and move type, holding only moves that are
\* grouped.
CompatibleDocs(k) ==
    { q \in DOMAIN pickings :
        /\ q # k
        /\ MovesOn(q) # {}
        /\ pickings[q].picking_type_id = pickings[k].picking_type_id
        /\ pickings[q].partner_id = pickings[k].partner_id
        /\ pickings[q].carrier_id = pickings[k].carrier_id
        /\ pickings[q].move_type = pickings[k].move_type
        /\ \A m \in MovesOn(q) \cup MovesOn(k) : ~grouping_disabled(MoveView(m)) }

\* picking_id after _merge_procurement_groups has coalesced `pull` into k.
merge_procurement_groups(k, pull) ==
    [ m \in DOMAIN picking_id |-> IF picking_id[m] \in pull THEN k ELSE picking_id[m] ]

\* What _merge_procurement_groups returns: it merged when it coalesced
\* pickings or when the picking holds the moves of several groups.
merge_happened(k, pull) ==
    pull # {} \/ Cardinality({ group_id[m] : m \in MovesOn(k) }) > 1

\* Index of the first item after pos whose key, read once the loop body has
\* run (pid), differs from the key of the group.
group_end(srt, pos, key, pid) ==
    LET later == { j \in (pos + 1)..Len(srt) : pid[srt[j]] # key } IN
    IF later = {} THEN Len(srt) + 1 ELSE CHOOSE j \in later : \A i \in later : j <= i

\* One turn of the loop: the merge of the group's picking, the refresh of
\* the origin and the message link when it merged, the advance to the next
\* group.
PostStep ==
    /\ post.active
    /\ \E pull \in SUBSET CompatibleDocs(post.key) :
           LET pid == merge_procurement_groups(post.key, pull)
               merged == merge_happened(post.key, pull)
               stop == group_end(post.srt, post.pos, post.key, pid)
               members == { post.srt[i] : i \in post.pos..(stop - 1) }
           IN
              /\ picking_id' = pid
              /\ post' = [ post EXCEPT
                    !.calls = Append(@, post.key),
                    !.groups = Append(@, [ key |-> post.key, members |-> members ]),
                    !.refreshed = IF merged THEN @ \cup { pid[m] : m \in members } ELSE @,
                    !.pos = stop,
                    !.key = IF stop <= Len(post.srt) THEN pid[post.srt[stop]] ELSE 0,
                    !.active = stop <= Len(post.srt),
                    !.ran = TRUE ]
    /\ UNCHANGED <<cfg, group_id, pickings, via, env, last, dq, dres, mq, mres>>

\* The call returns to its caller.
PostReturn ==
    /\ ~post.active /\ post.ran
    /\ post' = NoPost
    /\ last' = NoLast
    /\ UNCHANGED <<cfg, group_id, picking_id, pickings, via, env, dq, dres, mq, mres>>

-----------------------------------------------------------------------------
(* _assign_picking on a batch of moves that share their assignment key: the *)
(* search of a picking, its creation when none is found, the write of       *)
(* picking_id in the context that carries the flag, then the post process.  *)

MinOf(set) == CHOOSE x \in set : \A y \in set : x <= y

SeqOfSet(set) ==
    [ r \in 1..Cardinality(set) |->
        CHOOSE x \in set : Cardinality({ y \in set : y < x }) = r - 1 ]

Attach(batch, p, how, ctx, pks) ==
    LET vals == write_vals(batch, Vals(TRUE, p, FALSE, 0), ctx) IN
    /\ pickings' = pks
    /\ group_id' = BaseWriteGroup(batch, vals, pks)
    /\ picking_id' = BaseWritePicking(batch, vals)
    /\ via' = [ m \in Moves |-> IF m \in batch THEN how ELSE via[m] ]
    /\ last' = [ op |-> "assign", rs |-> batch, picking |-> p, how |-> how ]
    /\ post' = post_start(SeqOfSet(batch), BaseWritePicking(batch, vals))

AssignPicking(batch) ==
    /\ ~post.active /\ ~post.ran
    /\ batch # {}
    /\ \A m \in batch : picking_id[m] = 0
    /\ \A a, b \in batch : key_assign_picking(a) = key_assign_picking(b)
    /\ LET ctx == Top(assign_picking_context(<<{}>>))
           m0 == MinOf(batch)
           grouped == ~grouping_disabled(MoveView(m0))
           domain == search_picking_for_assignation_domain(BaseDomain(m0), MoveView(m0), ctx)
           found == { i \in DOMAIN pickings : Matches(pickings[i], domain) }
       IN \/ \E p \in found :
                Attach(batch, p, IF grouped THEN "expanded" ELSE "base", ctx, pickings)
          \/ /\ found = {}
             /\ Attach(batch, Len(pickings) + 1, "new", ctx,
                       Append(pickings, NewPicking(m0, Len(pickings) + 1)))
    /\ UNCHANGED <<cfg, env, dq, dres, mq, mres>>

Init ==
    /\ cfg \in Configs
    /\ group_id = [ m \in Moves |-> OrderOf(m) ]
    /\ picking_id = [ m \in Moves |-> 0 ]
    /\ pickings = <<>>
    /\ via = [ m \in Moves |-> "none" ]
    /\ env = <<>> /\ last = NoLast /\ post = NoPost
    /\ dq = NoQuery /\ dres = NoResult /\ mq = NoMerge /\ mres = NoMergeResult

Next ==
    \/ \E batch \in SUBSET Moves : AssignPicking(batch)
    \/ PostStep
    \/ PostReturn

Spec == Init /\ [][Next]_vars

-----------------------------------------------------------------------------
(* Claims on the search domain and on the merge fields                      *)

IsCarrierClause(c) == c.field = "carrier_id"

\* What the specification calls a move that is not grouped.
NotGrouped(mv) == ~mv.group_pickings \/ mv.disable \/ mv.policy = "one"

\* C4: for a move whose picking type disables grouping, or whose partner
\* disables grouping, or whose order is shipped complete, the domain returned
\* is the base domain itself: same clauses, same order, group clause kept,
\* nothing added, in the backorder context too.
C4_BaseFilterUnchanged ==
    (dres.done /\ NotGrouped(dq.mv)) => dres.domain = dq.base

C4_Witness ==
    /\ dres.done
    /\ dq.mv.group_pickings /\ dq.mv.disable /\ dq.mv.policy = "direct"
    /\ NoCopy \in dq.ctx
    /\ Len(dq.base) = 2 /\ IsGroupClause(dq.base[1])
    /\ dres.domain = dq.base

\* C5: the domain of a grouped move holds exactly one carrier clause; it asks
\* for the carrier of the move's group when the picking type is outgoing and
\* for no carrier for any other picking type.
C5_OneCarrierClause ==
    (dres.done /\ ~NotGrouped(dq.mv)) =>
        LET cc == SelectSeq(dres.domain, IsCarrierClause) IN
        /\ Len(cc) = 1
        /\ cc[1].op = "="
        /\ cc[1].value = IF dq.mv.code = "outgoing" THEN IdVal(dq.mv.gcarrier) ELSE IdVal(0)

C5_Witness ==
    /\ dres.done /\ ~NotGrouped(dq.mv)
    /\ dq.mv.code = "internal" /\ dq.mv.gcarrier = 1
    /\ Len(dq.base) = 2
    /\ Len(SelectSeq(dres.domain, IsCarrierClause)) = 1

\* C7: the distinct fields are the base fields followed by original_group_id,
\* so two moves with different original groups (one of them possibly empty)
\* are never merge-equivalent, whatever their other fields.
C7_OriginalGroupDistinct ==
    mres.done =>
        /\ Len(mres.fields) = Len(mq.base) + 1
        /\ SubSeq(mres.fields, 1, Len(mq.base)) = mq.base
        /\ mres.fields[Len(mres.fields)] = "original_group_id"
        /\ (mq.a.original_group_id # mq.b.original_group_id
                => ~MergeEquivalent(mres.fields, mq.a, mq.b))

C7_Witness ==
    /\ mres.done
    /\ mq.a.original_group_id = 0 /\ mq.b.original_group_id = 1
    /\ MergeEquivalent(mq.base, mq.a, mq.b)
    /\ Len(mq.base) = 2
    /\ ~MergeEquivalent(mres.fields, mq.a, mq.b)

-----------------------------------------------------------------------------
(* SpecPost: _assign_picking_post_process called on any batch, in any       *)
(* order, of moves that already have their pickings. Every order was first  *)
(* delivered on a picking of its own.                                       *)

\* The sequences without repetition of moves: the batches.
Batches ==
    { b \in UNION { [1..n -> Moves] : n \in 1..NMoves } :
        \A i, j \in 1..Len(b) : i # j => b[i] # b[j] }

PostProcessCall(batch) ==
    /\ ~post.active /\ ~post.ran
    /\ \A i \in 1..Len(batch) : picking_id[batch[i]] # 0
    /\ picking_id' = picking_id
    /\ post' = post_start(batch, picking_id)
    /\ last' = [ op |-> "post", batch |-> batch, before |-> picking_id ]
    /\ UNCHANGED <<cfg, group_id, pickings, via, env, dq, dres, mq, mres>>

PostConfigs == { c \in Configs : c.group_pickings /\ c.code = "outgoing" /\ c.disabled = {} }

InitPost ==
    /\ cfg \in PostConfigs
    /\ group_id = [ m \in Moves |-> OrderOf(m) ]
    /\ picking_id = [ m \in Moves |-> OrderOf(m) ]
    /\ pickings = [ o \in Orders |->
            [ id |-> o, group_id |-> o, partner_id |-> cfg.order[o].partner,
              carrier_id |-> cfg.order[o].carrier, move_type |-> cfg.order[o].policy,
              picking_type_id |-> 1 ] ]
    /\ via = [ m \in Moves |-> "new" ]
    /\ env = <<>> /\ last = NoLast /\ post = NoPost
    /\ dq = NoQuery /\ dres = NoResult /\ mq = NoMerge /\ mres = NoMergeResult

NextPost ==
    \/ \E batch \in Batches : PostProcessCall(batch)
    \/ PostStep
    \/ PostReturn

SpecPost == InitPost /\ [][NextPost]_vars

\* How many times picking p was handed to _merge_procurement_groups.
CallsOf(p) == Cardinality({ i \in 1..Len(post.calls) : post.calls[i] = p })
BatchMoves == { post.srt[i] : i \in 1..Len(post.srt) }
GroupsOfKey(p) == { i \in 1..Len(post.groups) : post.groups[i].key = p }

\* One call and one exact group for every picking of the batch, the moves
\* being on the pickings pid.
OncePerDocument(pid) ==
    \A p \in { pid[m] : m \in BatchMoves } :
        /\ CallsOf(p) = 1
        /\ \A i \in GroupsOfKey(p) :
              post.groups[i].members = { m \in BatchMoves : pid[m] = p }

\* C6: when the loop has ended, every picking of the batch was handed to
\* _merge_procurement_groups exactly once, in one group that holds exactly
\* the moves of the batch on that picking, also when a merge moved moves of
\* the batch during the loop. The pickings of the moves are taken as they
\* were when the call started, or as they are when it ends.
C6_OncePerDocument ==
    (post.ran /\ ~post.active) =>
        OncePerDocument(last.before) \/ OncePerDocument(picking_id)

\* The loop is right when no merge moves a move of the batch.
OncePerDocumentWhenNothingMoves ==
    (post.ran /\ ~post.active /\ \A m \in BatchMoves : last.before[m] = picking_id[m]) =>
        OncePerDocument(picking_id)

-----------------------------------------------------------------------------
(* SpecWrite: write called on any moves with any vals, by a caller          *)
(* (transaction 1) inside or outside _assign_picking, and by another        *)
(* operation (transaction 2) that runs in between with its own context.     *)

Txns == {1, 2}
WriteMoves == 1..NWriteMoves
WriteGroups == {1, 2}
WritePickings ==
    [ i \in WriteGroups |->
        [ id |-> i, group_id |-> i, partner_id |-> 1, carrier_id |-> 0,
          move_type |-> "direct", picking_type_id |-> 1 ] ]

WriteValues ==
    { v \in [ has_picking : BOOLEAN, picking : WriteGroups \cup {0},
              has_group : BOOLEAN, group : WriteGroups \cup {0} ] :
        /\ v.has_picking \/ v.has_group
        /\ v.has_picking <=> v.picking # 0
        /\ v.has_group <=> v.group # 0 }

\* _assign_picking is entered: the base procedure runs in the new context.
EnterAssignPicking(t) ==
    /\ t = 1
    /\ Len(env[t]) <= MaxDepth
    /\ env' = [ env EXCEPT ![t] = assign_picking_context(@) ]
    /\ last' = [ op |-> "enter", t |-> t ]
    /\ UNCHANGED <<cfg, group_id, picking_id, pickings, via, post, dq, dres, mq, mres>>

\* _assign_picking returns its result.
ReturnAssignPicking(t) ==
    /\ Len(env[t]) > 1
    /\ env' = [ env EXCEPT ![t] = SubSeq(@, 1, Len(@) - 1) ]
    /\ last' = [ op |-> "return", t |-> t ]
    /\ UNCHANGED <<cfg, group_id, picking_id, pickings, via, post, dq, dres, mq, mres>>

\* The base procedure raises: the error leaves _assign_picking.
FailAssignPicking(t) ==
    /\ Len(env[t]) > 1
    /\ env' = [ env EXCEPT ![t] = SubSeq(@, 1, Len(@) - 1) ]
    /\ last' = [ op |-> "error", t |-> t ]
    /\ UNCHANGED <<cfg, group_id, picking_id, pickings, via, post, dq, dres, mq, mres>>

\* write(vals) on the moves rs, in the context of the running call of t.
Write(t, rs, vals) ==
    LET ctx == Top(env[t])
        delegated == write_vals(rs, vals, ctx)
    IN /\ group_id' = BaseWriteGroup(rs, delegated, pickings)
       /\ picking_id' = BaseWritePicking(rs, delegated)
       /\ last' = [ op |-> "write", t |-> t, rs |-> rs, vals |-> vals, ctx |-> ctx,
                    delegated |-> delegated ]
       /\ UNCHANGED <<cfg, pickings, via, env, post, dq, dres, mq, mres>>

InitWrite ==
    /\ group_id \in [WriteMoves -> WriteGroups \cup {0}]
    /\ picking_id = [ m \in WriteMoves |-> 0 ]
    /\ pickings = WritePickings
    /\ env = [ t \in Txns |-> <<{}>> ]
    /\ last = NoLast
    /\ cfg = NoCfg /\ via = <<>> /\ post = NoPost
    /\ dq = NoQuery /\ dres = NoResult /\ mq = NoMerge /\ mres = NoMergeResult

NextWrite ==
    \/ \E t \in Txns : EnterAssignPicking(t)
    \/ \E t \in Txns : ReturnAssignPicking(t)
    \/ \E t \in Txns : FailAssignPicking(t)
    \/ \E t \in Txns, rs \in (SUBSET WriteMoves) \ {{}}, vals \in WriteValues : Write(t, rs, vals)

SpecWrite == InitWrite /\ [][NextWrite]_vars

\* The last step was a write under the flag that sets picking_id and not
\* group_id, on moves that belong, together, to exactly one group.
KeepsGroupCase ==
    /\ last'.op = "write"
    /\ NoOverwrite \in last'.ctx
    /\ last'.vals.has_picking /\ ~last'.vals.has_group
    /\ Cardinality(GroupsOf(last'.rs)) = 1

\* C1: a write under the no-overwrite flag that sets picking_id and does not
\* set group_id, on moves that belong to exactly one group, hands that group
\* to the underlying write and leaves the group of every such move as it was,
\* whatever the group of the picking.
C1_GroupKept ==
    [][ KeepsGroupCase =>
            /\ last'.delegated.has_group
            /\ \A m \in last'.rs : group_id[m] # 0 =>
                  /\ last'.delegated.group = group_id[m]
                  /\ group_id'[m] = group_id[m] ]_vars

C1_Witness ==
    /\ last.op = "write"
    /\ NoOverwrite \in last.ctx
    /\ last.vals.has_picking /\ ~last.vals.has_group
    /\ last.rs = WriteMoves
    /\ last.delegated.has_group
    /\ \A m \in last.rs :
          /\ group_id[m] = last.delegated.group
          /\ picking_id[m] = last.vals.picking
          /\ pickings[picking_id[m]].group_id # group_id[m]

\* C8: the flag is in the context of exactly the calls nested in an
\* _assign_picking: not in the caller's context, before or after the call,
\* returned or failed, and never in the context of another operation, whose
\* writes reach the underlying write as they were given.
C8_FlagScoped ==
    /\ \A t \in Txns :
          /\ NoOverwrite \notin env[t][1]
          /\ \A i \in 2..Len(env[t]) : NoOverwrite \in env[t][i]
    /\ (last.op = "write" /\ Len(env[last.t]) = 1) =>
          /\ NoOverwrite \notin last.ctx
          /\ last.delegated = last.vals

C8_Witness ==
    /\ last.op = "write" /\ last.t = 2
    /\ Len(env[1]) = 2 /\ NoOverwrite \in Top(env[1])
    /\ last.vals.has_picking /\ ~last.vals.has_group
    /\ Cardinality({ group_id[m] : m \in last.rs }) = 1
    /\ last.delegated = last.vals
    /\ \A m \in last.rs : group_id[m] = pickings[last.vals.picking].group_id

-----------------------------------------------------------------------------
(* SpecBackorder: the creation of a backorder for a move that is on a       *)
(* picking. In the context picking_no_copy_if_can_group the move is put on  *)
(* the picking its search finds, or on a copy of its picking when the       *)
(* search finds none. Every order was first delivered on a picking of its   *)
(* own.                                                                     *)

CreateBackorder(m) ==
    /\ picking_id[m] # 0
    /\ LET ctx == {NoCopy}
           from == picking_id[m]
           grouped == ~grouping_disabled(MoveView(m))
           domain == search_picking_for_assignation_domain(BaseDomain(m), MoveView(m), ctx)
           found == { i \in DOMAIN pickings : Matches(pickings[i], domain) }
           new == Len(pickings) + 1
           done(p, how, pks) ==
               LET vals == write_vals({m}, Vals(TRUE, p, FALSE, 0), ctx) IN
               /\ pickings' = pks
               /\ group_id' = BaseWriteGroup({m}, vals, pks)
               /\ picking_id' = BaseWritePicking({m}, vals)
               /\ via' = [ via EXCEPT ![m] = "backorder" ]
               /\ last' = [ op |-> "backorder", m |-> m, from |-> from, how |-> how,
                            grouped |-> grouped ]
       IN \/ \E p \in found : done(p, "found", pickings)
          \/ /\ found = {}
             /\ new <= MaxPickings
             /\ done(new, "copy", Append(pickings, [ pickings[from] EXCEPT !.id = new ]))
    /\ UNCHANGED <<cfg, env, post, dq, dres, mq, mres>>

BackorderConfigs ==
    { c \in Configs : c.order[2].carrier = 1 /\ c.order[3].carrier = 1 }

InitBackorder ==
    /\ cfg \in BackorderConfigs
    /\ group_id = [ m \in Moves |-> OrderOf(m) ]
    /\ picking_id = [ m \in Moves |-> OrderOf(m) ]
    /\ pickings = [ o \in Orders |->
            [ id |-> o, group_id |-> o, partner_id |-> cfg.order[o].partner,
              carrier_id |-> cfg.order[o].carrier, move_type |-> cfg.order[o].policy,
              picking_type_id |-> 1 ] ]
    /\ via = [ m \in Moves |-> "new" ]
    /\ env = <<>> /\ last = NoLast /\ post = NoPost
    /\ dq = NoQuery /\ dres = NoResult /\ mq = NoMerge /\ mres = NoMergeResult

NextBackorder == \E m \in Moves : CreateBackorder(m)

SpecBackorder == InitBackorder /\ [][NextBackorder]_vars

IsIdClause(c) == c.field = "id"

\* C9: in the backorder context the domain of a grouped move holds the
\* clause that excludes the move's own picking, so the move of a backorder is
\* never put back on the picking it was split from; outside that context the
\* domain holds no clause on the picking's id.
C9_OwnPickingExcluded ==
    /\ \A m \in Moves : ~NotGrouped(MoveView(m)) =>
          LET inctx == search_picking_for_assignation_domain(
                            BaseDomain(m), MoveView(m), {NoCopy})
              outctx == search_picking_for_assignation_domain(
                            BaseDomain(m), MoveView(m), {NoOverwrite})
          IN /\ SelectSeq(inctx, IsIdClause)
                    = << Clause("id", "!=", IdVal(picking_id[m])) >>
             /\ picking_id[m] # 0 => ~Matches(pickings[picking_id[m]], inctx)
             /\ SelectSeq(outctx, IsIdClause) = <<>>
    /\ (last.op = "backorder" /\ last.grouped) => picking_id[last.m] # last.from

C9_Witness ==
    /\ last.op = "backorder" /\ last.grouped /\ last.how = "found"
    /\ picking_id[last.m] # last.from
    /\ MovesOn(last.from) # {}
    /\ Len(pickings) = MaxPickings

-----------------------------------------------------------------------------
(* Claims on the assignment, end to end                                     *)

Assigned(m) == picking_id[m] # 0
MovesOf(o) == { m \in Moves : OrderOf(m) = o }
SameShipping(a, b) ==
    /\ cfg.order[a].partner = cfg.order[b].partner
    /\ cfg.order[a].carrier = cfg.order[b].carrier

\* The scenario of two orders that are to share a picking, as the claim
\* states it.
C2_Scenario(a, b) ==
    /\ a # b
    /\ SameShipping(a, b)
    /\ cfg.order[a].policy = "direct" /\ cfg.order[b].policy = "direct"
    /\ cfg.code = "outgoing" /\ cfg.group_pickings

C2_Outcome(a, b) ==
    /\ \A m1, m2 \in MovesOf(a) \cup MovesOf(b) :
          (Assigned(m1) /\ Assigned(m2)) => picking_id[m1] = picking_id[m2]
    /\ \A c \in Orders : cfg.order[c].partner # cfg.order[a].partner =>
          \A m1 \in MovesOf(a) \cup MovesOf(b), m3 \in MovesOf(c) :
              (Assigned(m1) /\ Assigned(m3)) => picking_id[m1] # picking_id[m3]

\* C2 as stated: the moves of two orders with the same partner, the same
\* carrier, the "direct" policy and the same outgoing picking type with
\* grouping enabled are on one picking, and the moves of an order for another
\* partner are on another picking.
C2_AsStated == \A a, b \in Orders : C2_Scenario(a, b) => C2_Outcome(a, b)

\* C2 as amended: the same, for a partner that does not disable the grouping
\* of its pickings.
C2_SameDocument ==
    \A a, b \in Orders :
        (C2_Scenario(a, b) /\ cfg.order[a].partner \notin cfg.disabled) => C2_Outcome(a, b)

C2_Witness ==
    /\ C2_Scenario(1, 2) /\ cfg.order[1].partner \notin cfg.disabled
    /\ cfg.order[3].partner # cfg.order[1].partner
    /\ \A m \in Moves : Assigned(m)
    /\ picking_id[1] = picking_id[2] /\ picking_id[3] # picking_id[1]
    /\ via[1] = "expanded" /\ via[2] = "new"

KeepsBaseClauses(m, ctx) ==
    LET d == search_picking_for_assignation_domain(BaseDomain(m), MoveView(m), ctx)
        kept == SelectSeq(BaseDomain(m), NotGroupClause)
        added == assign_picking_group_domain(MoveView(m), ctx)
    IN /\ Len(d) = Len(kept) + Len(added)
       /\ SubSeq(d, 1, Len(kept)) = kept
       /\ Len(kept) = Len(BaseDomain(m)) - 1

====
